---- MODULE Spec2Model ----
(***************************************************************************)
(* Model of discord-mcp (src/src/index.ts): the bridge between the MCP     *)
(* request/response protocol and a discord.js client.                      *)
(*                                                                         *)
(* State: the process, the login of the discord.js client, the "ready"     *)
(* listener, the readiness flag and its promise, run(), the transport, the *)
(* guild cache, and the last request with the steps its handler took and   *)
(* the result it returned.                                                 *)
(*                                                                         *)
(* Optional JavaScript values are sequences of length 0 (undefined) or 1.  *)
(***************************************************************************)
EXTENDS Integers, Sequences, FiniteSets, TLC

VARIABLES
    token,          \* process.env.DISCORD_TOKEN: None or Some(string)
    process,        \* "loading" | "running" | "exited"
    exitCode,       \* the code given to process.exit; 0 while none was given
    loginCalls,     \* how many times discord.login was called
    loginState,     \* "none" | "pending" | "resolved" | "rejected"
    connectPc,      \* connectDiscord: "idle" | "awaitLogin" | "done"
    listener,       \* TRUE while the once("ready") listener is registered
    readyEmitted,   \* TRUE once the client emitted "ready"
    isReady,        \* DiscordMCPServer.isReady
    readyPromise,   \* "pending" | "resolved"
    runPc,          \* run(): "idle" | "awaitReady" | "connected"
    transport,      \* "detached" | "attached"
    guildCache,     \* discord.guilds.cache, in insertion order
    request,        \* the last request handled
    steps,          \* what the handler of the last request did, in order
    result,         \* what the handler of the last request returned or threw
    payload,        \* the messageOptions the last request built, if any
    prevFailed      \* TRUE once a tool invocation ended on a platform failure

vars == <<token, process, exitCode, loginCalls, loginState, connectPc, listener,
          readyEmitted, isReady, readyPromise, runPc, transport, guildCache,
          request, steps, result, payload, prevFailed>>

lifecycle == <<token, process, exitCode, loginCalls, loginState, connectPc,
               listener, readyEmitted, isReady, readyPromise, runPc, transport>>

(***************************************************************************)
(* Bounds.                                                                 *)
(***************************************************************************)
MaxGuilds == 2

MaxEmbeds == 1

MaxMessages == 2

(***************************************************************************)
(* JavaScript values.                                                      *)
(***************************************************************************)
None == <<>>

Some(x) == <<x>>

Opt(S) == {None} \cup {Some(x) : x \in S}

\* if (s): a string is truthy when it is defined and not empty
TruthyStr(o) == o # None /\ o[1] # ""

\* if (n): a number is truthy when it is defined and not 0
TruthyNum(o) == o # None /\ o[1] # 0

\* if (o): an object or an array is truthy when it is defined
TruthyObj(o) == o # None

\* const { x = d } = args: the default replaces undefined only
Default(o, d) == IF o = None THEN d ELSE o[1]

\* `${error}` of an Error: its name, ": ", its message
ErrorToString(e) == <<e.name, ": ">> \o e.message

McpError(code, message) ==
    [type |-> "error", name |-> "McpError", code |-> code, message |-> message]

\* a rejection of a discord.js call (DiscordAPIError, network fault, ...)
PlatformError(desc) ==
    [type |-> "error", name |-> "DiscordAPIError", code |-> "platform",
     message |-> <<desc>>]

PlatformFailures == {"Missing Permissions", "rate limited"}

NoRequest == [method |-> "none"]

NoResult == [type |-> "none"]

(***************************************************************************)
(* Start of the process: the token check, the constructor, run().          *)
(***************************************************************************)
Tokens == {None, Some(""), Some("tok")}

Init ==
    /\ token \in Tokens
    /\ process = "loading"
    /\ exitCode = 0
    /\ loginCalls = 0
    /\ loginState = "none"
    /\ connectPc = "idle"
    /\ listener = FALSE
    /\ readyEmitted = FALSE
    /\ isReady = FALSE
    /\ readyPromise = "pending"
    /\ runPc = "idle"
    /\ transport = "detached"
    /\ guildCache = <<>>
    /\ request = NoRequest
    /\ steps = <<>>
    /\ result = NoResult
    /\ payload = None
    /\ prevFailed = FALSE

\* process.exit(1)
Exit(code) ==
    /\ process' = "exited"
    /\ exitCode' = code

\* if (!DISCORD_TOKEN) { ...; process.exit(1) }
TokenMissing ==
    /\ process = "loading"
    /\ ~TruthyStr(token)
    /\ Exit(1)
    /\ UNCHANGED <<token, loginCalls, loginState, connectPc, listener, readyEmitted,
                   isReady, readyPromise, runPc, transport, guildCache, request,
                   steps, result, payload, prevFailed>>

\* a catch that logs the failure and goes on
ConnectDiscordCatchGoesOn ==
    /\ process' = "running"
    /\ UNCHANGED exitCode

\* catch (error) { ...; process.exit(1) } of connectDiscord
ConnectDiscordCatch == Exit(1)

\* new DiscordMCPServer(): the promise, the handlers, connectDiscord() up to
\* its await; then server.run() up to its await.  login() may throw at once,
\* which the catch of connectDiscord handles before the constructor returns.
Start ==
    /\ process = "loading"
    /\ TruthyStr(token)
    /\ loginCalls' = loginCalls + 1
    /\ \E thrown \in BOOLEAN :
          IF thrown
          THEN /\ loginState' = "rejected"
               /\ connectPc' = "done"
               /\ ConnectDiscordCatch
               /\ runPc' = IF process' = "exited" THEN runPc ELSE "awaitReady"
          ELSE /\ loginState' = "pending"
               /\ connectPc' = "awaitLogin"
               /\ process' = "running"
               /\ runPc' = "awaitReady"
               /\ UNCHANGED exitCode
    /\ UNCHANGED <<token, listener, readyEmitted, isReady, readyPromise, transport,
                   guildCache, request, steps, result, payload, prevFailed>>

(***************************************************************************)
(* The discord.js client: the login promise settles, guilds arrive, and    *)
(* "ready" is emitted once.  The order of "ready" and of the continuation  *)
(* of `await login` is the library's, so every order is taken.             *)
(***************************************************************************)
LoginResolves ==
    /\ process = "running"
    /\ loginState = "pending"
    /\ loginState' = "resolved"
    /\ UNCHANGED <<token, process, exitCode, loginCalls, connectPc, listener,
                   readyEmitted, isReady, readyPromise, runPc, transport, guildCache,
                   request, steps, result, payload, prevFailed>>

LoginRejects ==
    /\ process = "running"
    /\ loginState = "pending"
    /\ ~readyEmitted
    /\ loginState' = "rejected"
    /\ UNCHANGED <<token, process, exitCode, loginCalls, connectPc, listener,
                   readyEmitted, isReady, readyPromise, runPc, transport, guildCache,
                   request, steps, result, payload, prevFailed>>

Guilds ==
    { [id |-> "g1", name |-> "Alpha", memberCount |-> 3, ownerId |-> "u1"],
      [id |-> "g2", name |-> "Alpha", memberCount |-> 0, ownerId |-> "u2"] }

\* a guild enters discord.guilds.cache (between two requests: no handler
\* reads the cache across an await)
GuildCreate ==
    /\ process = "running"
    /\ request = [method |-> "none"]
    /\ loginState \in {"pending", "resolved"}
    /\ Len(guildCache) < MaxGuilds
    /\ \E g \in Guilds :
          /\ \A i \in 1..Len(guildCache) : guildCache[i].id # g.id
          /\ guildCache' = Append(guildCache, g)
    /\ UNCHANGED <<lifecycle, request, steps, result, payload, prevFailed>>

\* the continuation of `await this.discord.login(DISCORD_TOKEN)`:
\* this.discord.once("ready", ...)
ConnectDiscordResumes ==
    /\ process = "running"
    /\ connectPc = "awaitLogin"
    /\ loginState = "resolved"
    /\ connectPc' = "done"
    /\ listener' = TRUE
    /\ UNCHANGED <<token, process, exitCode, loginCalls, loginState, readyEmitted,
                   isReady, readyPromise, runPc, transport, guildCache, request,
                   steps, result, payload, prevFailed>>

\* the rejection of login reaches the catch of connectDiscord
ConnectDiscordFails ==
    /\ process = "running"
    /\ connectPc = "awaitLogin"
    /\ loginState = "rejected"
    /\ connectPc' = "done"
    /\ ConnectDiscordCatch
    /\ UNCHANGED <<token, loginCalls, loginState, listener, readyEmitted, isReady,
                   readyPromise, runPc, transport, guildCache, request, steps,
                   result, payload, prevFailed>>

\* the "ready" callback: this.isReady = true; this.resolveReady()
ReadyCallback ==
    /\ isReady' = TRUE
    /\ readyPromise' = "resolved"

\* the client emits "ready": a once-listener registered by now runs and is
\* removed; with no listener the event is dropped.
EmitReady ==
    /\ process = "running"
    /\ loginState \in {"pending", "resolved"}
    /\ ~readyEmitted
    /\ readyEmitted' = TRUE
    /\ IF listener
       THEN ReadyCallback /\ listener' = FALSE
       ELSE UNCHANGED <<isReady, readyPromise, listener>>
    /\ UNCHANGED <<token, process, exitCode, loginCalls, loginState, connectPc,
                   runPc, transport, guildCache, request, steps, result, payload,
                   prevFailed>>

\* run() without its await
ReadyNotAwaited == TRUE

\* await this.readyPromise
ReadyAwaited == readyPromise = "resolved"

\* the continuation of run(): server.connect(new StdioServerTransport())
RunResumes ==
    /\ process = "running"
    /\ runPc = "awaitReady"
    /\ ReadyAwaited
    /\ runPc' = "connected"
    /\ transport' = "attached"
    /\ UNCHANGED <<token, process, exitCode, loginCalls, loginState, connectPc,
                   listener, readyEmitted, isReady, readyPromise, guildCache,
                   request, steps, result, payload, prevFailed>>

(***************************************************************************)
(* Request handlers.  A handler is a function of the readiness flag, the   *)
(* request and what the platform answers; it yields the steps it took (the *)
(* platform calls with their outcome among them), the result it returned   *)
(* or the error it threw, and the messageOptions it built.                 *)
(***************************************************************************)
Step(op, out) == [op |-> op, out |-> out]

\* a platform call that was rejected, with the description of the failure
Rejected(op, desc) == [op |-> op, out |-> "rejected", error |-> desc]

Outcome(st, res, pl) == [steps |-> st, result |-> res, payload |-> pl]

PlatformOps == {"channels.fetch", "guilds.fetch", "messages.fetch", "send", "guilds.cache"}

\* the platform calls among the steps of a request
PlatformCalls(st) == { i \in 1..Len(st) : st[i].op \in PlatformOps }

Calls(st, op) == Cardinality({ i \in 1..Len(st) : st[i].op = op })

\* the handlers without their check of the flag
NotReadyUnchecked(ready) == FALSE

\* if (!this.isReady) throw new McpError(ErrorCode.InternalError, "Discord client not ready")
NotReady(ready) == ~ready

NotReadyError == McpError("InternalError", <<"Discord client not ready">>)

\* JSON.stringify(value, null, 2): the text of a value
JsonStringify(value) == [json |-> value, indent |-> 2]

GuildsUri == "discord://guilds"

\* a list-resources handler that checks the readiness flag first
ListResourcesHandlerChecksReady ==
    IF ~isReady
    THEN Outcome(<<>>, NotReadyError, None)
    ELSE Outcome(<<>>,
                 [type |-> "ok",
                  resources |-> << [uri |-> GuildsUri, name |-> "Discord Guilds",
                                    description |-> "List of Discord guilds the bot is in",
                                    mimeType |-> "application/json"] >>],
                 None)

\* the handler of ListResourcesRequestSchema
ListResourcesHandler ==
    Outcome(<<>>,
            [type |-> "ok",
             resources |-> << [uri |-> GuildsUri, name |-> "Discord Guilds",
                               description |-> "List of Discord guilds the bot is in",
                               mimeType |-> "application/json"] >>],
            None)

\* guild => ({ id, name, memberCount })
GuildSummary(guild) ==
    [id |-> guild.id, name |-> guild.name, memberCount |-> guild.memberCount]

\* uri.startsWith("discord://guilds")
IsGuildsUriPrefix(uri) == uri \in {GuildsUri, "discord://guilds/"}

\* uri === "discord://guilds"
IsGuildsUri(uri) == uri = GuildsUri

\* the handler of ReadResourceRequestSchema
ReadResourceHandler(ready, uri, cache) ==
    IF NotReady(ready)
    THEN Outcome(<<>>, NotReadyError, None)
    ELSE IF IsGuildsUri(uri)
    THEN Outcome(<<Step("guilds.cache", "read")>>,
                 [type |-> "ok",
                  contents |-> << [uri |-> uri, mimeType |-> "application/json",
                                   text |-> JsonStringify(
                                       [i \in 1..Len(cache) |-> GuildSummary(cache[i])])] >>],
                 None)
    ELSE Outcome(<<>>, McpError("InvalidRequest", <<"Unknown resource: ", uri>>), None)

ToolNames == <<"send_message", "read_messages", "list_channels">>

\* the handler of ListToolsRequestSchema: the three descriptors, by name and
\* required fields
ListToolsHandler ==
    Outcome(<<>>,
            [type |-> "ok",
             tools |-> << [name |-> "send_message", required |-> <<"channelId">>],
                          [name |-> "read_messages", required |-> <<"channelId">>],
                          [name |-> "list_channels", required |-> <<"guildId">>] >>],
            None)

(***************************************************************************)
(* The platform's channels.                                                *)
(***************************************************************************)
\* the ChannelType enum of discord.js
ChannelType ==
    [GuildText |-> 0, DM |-> 1, GuildVoice |-> 2, GroupDM |-> 3, GuildCategory |-> 4,
     GuildAnnouncement |-> 5, AnnouncementThread |-> 10, PublicThread |-> 11,
     PrivateThread |-> 12, GuildStageVoice |-> 13, GuildForum |-> 15, GuildMedia |-> 16]

\* discord.channels.fetch(id) when it resolves: the channel, or null
ChannelOf(id) ==
    CASE id = "c-text" -> Some([id |-> "c-text", type |-> ChannelType.GuildText])
      [] id = "c-cat" -> Some([id |-> "c-cat", type |-> ChannelType.GuildCategory])
      [] OTHER -> None

ChannelIds == {"c-text", "c-cat", "c-none"}

\* channel.isTextBased() of discord.js
IsTextBased(channel) ==
    channel.type \in {ChannelType.GuildText, ChannelType.DM, ChannelType.GuildVoice,
                      ChannelType.GroupDM, ChannelType.GuildAnnouncement,
                      ChannelType.AnnouncementThread, ChannelType.PublicThread,
                      ChannelType.PrivateThread, ChannelType.GuildStageVoice}

\* what a platform call answers: "ok", or the description of its failure
Answers == {"ok"} \cup PlatformFailures

\* !channel || !channel.isTextBased()
BadChannel(ch) == ch = None \/ ~IsTextBased(ch[1])

BadChannelError ==
    McpError("InvalidRequest", <<"Invalid channel ID or channel is not text-based">>)

FetchStep(id, answer) ==
    IF answer # "ok" THEN Rejected("channels.fetch", answer)
    ELSE Step("channels.fetch", IF ChannelOf(id) = None THEN "null" ELSE "channel")

(***************************************************************************)
(* send_message.                                                           *)
(***************************************************************************)
EmptyEmbed ==
    [title |-> None, description |-> None, url |-> None, color |-> None,
     fields |-> None, author |-> None, thumbnail |-> None, image |-> None,
     footer |-> None, timestamp |-> None]

EmbedInputs ==
    { [EmptyEmbed EXCEPT !.title = Some("T"), !.color = Some(0)],
      [EmptyEmbed EXCEPT !.author = Some([name |-> None, url |-> Some("http://a"),
                                          iconURL |-> None]),
                         !.fields = Some(<<[name |-> "n", value |-> "v",
                                            inline |-> None]>>)],
      [EmptyEmbed EXCEPT !.description = Some(""),
                         !.footer = Some([text |-> Some("f"), iconURL |-> None]),
                         !.timestamp = Some("2024-01-01T00:00:00Z")] }

SeqsUpTo(S, n) == UNION { [1..k -> S] : k \in 0..n }

SendArgs ==
    [channelId : ChannelIds,
     content : Opt({"", "hi"}),
     replyTo : Opt({"m1"}),
     tts : Opt({TRUE}),
     suppressEmbeds : Opt({TRUE}),
     suppressNotifications : Opt({TRUE}),
     embeds : Opt(SeqsUpTo(EmbedInputs, MaxEmbeds)),
     allowedMentions : Opt({[parse |-> Some(<<"users">>), users |-> None,
                             roles |-> None, repliedUser |-> Some(FALSE)]})]

\* MessageFlags.SuppressEmbeds
SuppressEmbedsFlag == 4

\* MessageFlags.SuppressNotifications
SuppressNotificationsFlag == 4096

\* x || undefined, for a string
OrUndefined(o) == IF TruthyStr(o) THEN o ELSE None

\* x || "", for a string
OrEmpty(o) == IF TruthyStr(o) THEN o[1] ELSE ""

\* embeds.map(embedData => { const embed = new EmbedBuilder(); ...; return embed })
BuildEmbed(e) ==
    [title |-> IF TruthyStr(e.title) THEN e.title ELSE None,
     description |-> IF TruthyStr(e.description) THEN e.description ELSE None,
     url |-> IF TruthyStr(e.url) THEN e.url ELSE None,
     color |-> IF TruthyNum(e.color) THEN e.color ELSE None,
     timestamp |-> IF TruthyStr(e.timestamp) THEN Some([date |-> e.timestamp[1]]) ELSE None,
     author |-> IF TruthyObj(e.author)
                THEN Some([name |-> OrEmpty(e.author[1].name), url |-> e.author[1].url,
                           iconURL |-> e.author[1].iconURL])
                ELSE None,
     thumbnail |-> IF TruthyObj(e.thumbnail) THEN Some([url |-> e.thumbnail[1].url]) ELSE None,
     image |-> IF TruthyObj(e.image) THEN Some([url |-> e.image[1].url]) ELSE None,
     footer |-> IF TruthyObj(e.footer)
                THEN Some([text |-> OrEmpty(e.footer[1].text),
                           iconURL |-> e.footer[1].iconURL])
                ELSE None,
     fields |-> IF TruthyObj(e.fields) THEN e.fields ELSE None]

\* embeds && embeds.length > 0
HasEmbeds(embeds) == embeds # None /\ Len(embeds[1]) > 0

\* the flags of the message: flags |= ... for each suppress option (the two
\* bits differ, so the bitwise or is the sum)
MessageFlagsOf(args) ==
    (IF Default(args.suppressEmbeds, FALSE) THEN SuppressEmbedsFlag ELSE 0)
    + (IF Default(args.suppressNotifications, FALSE) THEN SuppressNotificationsFlag ELSE 0)

\* the messageOptions built between the channel check and the content check
MessageOptions(args) ==
    [content |-> OrUndefined(args.content),
     tts |-> Default(args.tts, FALSE),
     allowedMentions |-> args.allowedMentions,
     reply |-> IF TruthyStr(args.replyTo)
               THEN Some([messageReference |-> args.replyTo[1], failIfNotExists |-> FALSE])
               ELSE None,
     embeds |-> IF HasEmbeds(args.embeds)
                THEN Some([i \in 1..Len(args.embeds[1]) |-> BuildEmbed(args.embeds[1][i])])
                ELSE None,
     flags |-> IF MessageFlagsOf(args) > 0 THEN Some(MessageFlagsOf(args)) ELSE None]

\* the steps that build messageOptions
BuildSteps(args) ==
    <<Step("messageOptions", "built")>>
    \o (IF TruthyStr(args.replyTo) THEN <<Step("reply", "set")>> ELSE <<>>)
    \o (IF HasEmbeds(args.embeds) THEN <<Step("embeds", "built")>> ELSE <<>>)
    \o (IF MessageFlagsOf(args) > 0 THEN <<Step("flags", "set")>> ELSE <<>>)

\* content === undefined && embeds === undefined
NothingToSendUndefinedOnly(args) == args.content = None /\ args.embeds = None

\* !content && (!embeds || embeds.length === 0)
NothingToSend(args) == ~TruthyStr(args.content) /\ ~HasEmbeds(args.embeds)

NothingToSendError ==
    McpError("InvalidRequest", <<"Either content or embeds must be provided">>)

\* catch (error) { throw error }
SendCatchRethrows(error) == error

\* catch (error) { throw new McpError(ErrorCode.InternalError, `Failed to send message: ${error}`) }
SendCatch(error) ==
    McpError("InternalError", <<"Failed to send message: ">> \o ErrorToString(error))

\* a send_message that checks content-or-embeds before it builds anything
SendMessageCheckFirst(args, env) ==
    LET fetch == <<FetchStep(args.channelId, env.fetch)>>
        channel == ChannelOf(args.channelId)
        checked == fetch \o <<Step("validate", "checked")>>
        built == checked \o BuildSteps(args)
    IN  IF env.fetch # "ok"
        THEN Outcome(fetch, SendCatch(PlatformError(env.fetch)), None)
        ELSE IF BadChannel(channel)
        THEN Outcome(fetch, SendCatch(BadChannelError), None)
        ELSE IF NothingToSend(args)
        THEN Outcome(checked, SendCatch(NothingToSendError), None)
        ELSE IF env.send # "ok"
        THEN Outcome(built \o <<Rejected("send", env.send)>>,
                     SendCatch(PlatformError(env.send)), Some(MessageOptions(args)))
        ELSE Outcome(built \o <<Step("send", "sent")>>,
                     [type |-> "ok",
                      content |-> << [type |-> "text",
                                      text |-> <<"Message sent successfully. ID: ",
                                                 env.messageId>>] >>],
                     Some(MessageOptions(args)))

\* case "send_message": env.fetch and env.send are what channels.fetch and
\* channel.send answer when called
SendMessage(args, env) ==
    LET fetch == <<FetchStep(args.channelId, env.fetch)>>
        channel == ChannelOf(args.channelId)
        built == fetch \o BuildSteps(args)
        checked == built \o <<Step("validate", "checked")>>
    IN  IF env.fetch # "ok"
        THEN Outcome(fetch, SendCatch(PlatformError(env.fetch)), None)
        ELSE IF BadChannel(channel)
        THEN Outcome(fetch, SendCatch(BadChannelError), None)
        ELSE IF NothingToSend(args)
        THEN Outcome(checked, SendCatch(NothingToSendError), Some(MessageOptions(args)))
        ELSE IF env.send # "ok"
        THEN Outcome(checked \o <<Rejected("send", env.send)>>,
                     SendCatch(PlatformError(env.send)), Some(MessageOptions(args)))
        ELSE Outcome(checked \o <<Step("send", "sent")>>,
                     [type |-> "ok",
                      content |-> << [type |-> "text",
                                      text |-> <<"Message sent successfully. ID: ",
                                                 env.messageId>>] >>],
                     Some(MessageOptions(args)))

SendEnv == [fetch : Answers, send : Answers, messageId : {"m9"}]

(***************************************************************************)
(* read_messages.                                                          *)
(***************************************************************************)
\* limit = 10
DefaultLimit == 10

\* the k-th message of a channel, oldest first
Message(k) ==
    [id |-> k,
     author |-> [id |-> IF k % 2 = 1 THEN "u1" ELSE "u2",
                 username |-> IF k % 2 = 1 THEN "ann" ELSE "bob",
                 bot |-> k % 2 = 0],
     content |-> IF k = 1 THEN "" ELSE "text",
     createdTimestamp |-> 10 * k,
     editedTimestamp |-> IF k = 2 THEN Some(10 * k + 5) ELSE None,
     attachments |-> IF k = 1
                     THEN <<[name |-> "a.png", url |-> "http://a", size |-> 9,
                             contentType |-> Some("image/png"), id |-> "att1"]>>
                     ELSE <<>>,
     embeds |-> IF k % 2 = 1
                THEN <<[title |-> Some("T"), description |-> None, url |-> None,
                        color |-> None, fields |-> <<>>, author |-> None,
                        thumbnail |-> Some([url |-> "http://t", width |-> 1]),
                        image |-> None, footer |-> None, timestamp |-> Some("ts")]>>
                ELSE <<>>,
     reactions |-> IF k >= 2
                   THEN <<[emoji |-> "ok", count |-> k, me |-> FALSE]>>
                   ELSE <<>>]

\* the history of the text channel as the platform returns it: newest first
History == [i \in 1..MaxMessages |-> Message(MaxMessages + 1 - i)]

\* the elements of h at the indices I, in the order of h
Pick(h, I) ==
    [k \in 1..Cardinality(I) |->
        h[CHOOSE i \in I : Cardinality({j \in I : j <= i}) = k]]

\* what messages.fetch({ limit, ... }) may resolve to: messages of the
\* history, newest first, at most `limit` of them
Fetchable(limit) ==
    { Pick(History, I) : I \in { J \in SUBSET (1..Len(History)) : Cardinality(J) <= limit } }

ReadArgs ==
    [channelId : ChannelIds,
     limit : Opt({1, 2}),
     before : Opt({"2"}),
     after : Opt({"1"}),
     around : Opt({""}),
     authorId : Opt({"u1"}),
     includeContent : Opt({FALSE}),
     includeEmbeds : Opt({TRUE}),
     includeReactions : Opt({TRUE}),
     sortOrder : Opt({"asc", "desc"})]

\* fetch options that leave the requested limit out
FetchOptionsWithoutLimit(args) ==
    [limit |-> DefaultLimit,
     before |-> OrUndefined(args.before),
     after |-> OrUndefined(args.after),
     around |-> OrUndefined(args.around)]

\* { limit }, then before, after, around when truthy
FetchOptions(args) ==
    [limit |-> Default(args.limit, DefaultLimit),
     before |-> OrUndefined(args.before),
     after |-> OrUndefined(args.after),
     around |-> OrUndefined(args.around)]

\* messages.filter(msg => msg.author.id === authorId), when authorId is truthy
FilterAuthor(messages, authorId) ==
    IF TruthyStr(authorId)
    THEN SelectSeq(messages, LAMBDA msg : msg.author.id = authorId[1])
    ELSE messages

Reverse(q) == [i \in 1..Len(q) |-> q[Len(q) + 1 - i]]

\* an output that keeps the order of the fetch whatever sortOrder says
SortMessagesAsFetched(messages, sortOrder) == messages

\* if (sortOrder === "asc") messageArray.reverse()
SortMessages(messages, sortOrder) ==
    IF Default(sortOrder, "desc") = "asc" THEN Reverse(messages) ELSE messages

\* embed.thumbnail?.url
UrlOf(o) == IF o = None THEN None ELSE Some(o[1].url)

\* includeContent = false
WantsContentOffByDefault(args) == Default(args.includeContent, FALSE)

\* includeContent = true
WantsContent(args) == Default(args.includeContent, TRUE)

\* includeEmbeds = false
WantsEmbeds(args) == Default(args.includeEmbeds, FALSE)

\* includeReactions = false
WantsReactions(args) == Default(args.includeReactions, FALSE)

\* the projection of one message
ProjectMessage(msg, args) ==
    [id |-> msg.id,
     author |-> [id |-> msg.author.id, username |-> msg.author.username,
                 bot |-> msg.author.bot],
     timestamp |-> msg.createdTimestamp,
     editedTimestamp |-> msg.editedTimestamp,
     attachments |-> [i \in 1..Len(msg.attachments) |->
                         [name |-> msg.attachments[i].name,
                          url |-> msg.attachments[i].url,
                          size |-> msg.attachments[i].size,
                          contentType |-> msg.attachments[i].contentType]],
     content |-> IF WantsContent(args) THEN Some(msg.content) ELSE None,
     embeds |-> IF WantsEmbeds(args) /\ Len(msg.embeds) > 0
                THEN Some([i \in 1..Len(msg.embeds) |->
                              [title |-> msg.embeds[i].title,
                               description |-> msg.embeds[i].description,
                               url |-> msg.embeds[i].url,
                               color |-> msg.embeds[i].color,
                               fields |-> msg.embeds[i].fields,
                               author |-> msg.embeds[i].author,
                               thumbnail |-> UrlOf(msg.embeds[i].thumbnail),
                               image |-> UrlOf(msg.embeds[i].image),
                               footer |-> msg.embeds[i].footer]])
                ELSE None,
     reactions |-> IF WantsReactions(args) /\ Len(msg.reactions) > 0
                   THEN Some([i \in 1..Len(msg.reactions) |->
                                 [emoji |-> msg.reactions[i].emoji,
                                  count |-> msg.reactions[i].count,
                                  me |-> msg.reactions[i].me]])
                   ELSE None]

\* catch (error) { throw new McpError(ErrorCode.InternalError, `Failed to read messages: ${error}`) }
ReadCatch(error) ==
    McpError("InternalError", <<"Failed to read messages: ">> \o ErrorToString(error))

\* case "read_messages": env.fetch and env.messages are what channels.fetch
\* and messages.fetch answer when called; env.fetched is what the latter
\* resolves to
ReadMessages(args, env) ==
    LET fetch == <<FetchStep(args.channelId, env.fetch)>>
        channel == ChannelOf(args.channelId)
        kept == SortMessages(FilterAuthor(env.fetched, args.authorId), args.sortOrder)
    IN  IF env.fetch # "ok"
        THEN Outcome(fetch, ReadCatch(PlatformError(env.fetch)), None)
        ELSE IF BadChannel(channel)
        THEN Outcome(fetch, ReadCatch(BadChannelError), None)
        ELSE IF env.messages # "ok"
        THEN Outcome(fetch \o <<Rejected("messages.fetch", env.messages)>>,
                     ReadCatch(PlatformError(env.messages)), None)
        ELSE Outcome(fetch \o <<[op |-> "messages.fetch", out |-> "fetched",
                                 options |-> FetchOptions(args),
                                 messages |-> env.fetched]>>,
                     [type |-> "ok",
                      content |-> << [type |-> "text",
                                      text |-> JsonStringify(
                                          [i \in 1..Len(kept) |->
                                              ProjectMessage(kept[i], args)])] >>],
                     None)

ReadEnvs(args) ==
    [fetch : Answers, messages : Answers,
     fetched : Fetchable(FetchOptions(args).limit)]

(***************************************************************************)
(* list_channels.                                                          *)
(***************************************************************************)
\* A cached guild channel.  props are the properties the object has
\* ('position' in channel, 'parentId' in channel, 'topic' in channel).
Chan(id, name, type, props, position, parentId, archived, created) ==
    [id |-> id, name |-> name, type |-> type, props |-> props, position |-> position,
     parentId |-> parentId, archived |-> archived, createdTimestamp |-> created,
     topic |-> IF type = ChannelType.GuildText THEN Some("about") ELSE None,
     permissions |-> IF type = ChannelType.PrivateThread THEN None
                     ELSE Some({"ViewChannel", "SendMessages"}),
     bitrate |-> 64, userLimit |-> 0, autoArchiveDuration |-> 60, memberCount |-> 1,
     defaultAutoArchiveDuration |-> None,
     availableTags |-> Some(<<[id |-> "t1", name |-> "tag", emoji |-> None]>>)]

GuildProps == {"position", "parentId", "topic"}

ThreadProps == {"parentId"}

\* guild.channels.cache of the guild "g1", in insertion order
ChannelCache ==
    << Chan("k1", "cat", ChannelType.GuildCategory, GuildProps, 1, None, FALSE, 50),
       Chan("k2", "general", ChannelType.GuildText, GuildProps, 2, Some("k1"), FALSE, 40),
       Chan("k3", "Voice", ChannelType.GuildVoice, GuildProps, 0, None, FALSE, 30),
       Chan("k4", "thread", ChannelType.PublicThread, ThreadProps, 0, Some("k2"), TRUE, 20),
       Chan("k5", "secret", ChannelType.PrivateThread, ThreadProps, 0, Some("k2"), FALSE, 10),
       Chan("k6", "late", ChannelType.GuildForum, GuildProps, 1000, Some("k9"), FALSE, 60) >>

\* guild.members.cache: who sits in which voice channel
GuildMembers == << [id |-> "u1", voice |-> Some("k3")], [id |-> "u2", voice |-> None] >>

\* discord.guilds.fetch(id) when it resolves
GuildIds == {"g1"}

TypeNames == <<"text", "voice", "category", "news", "stage", "forum", "media", "thread">>

\* typeMapping
typeMapping ==
    [text |-> ChannelType.GuildText, voice |-> ChannelType.GuildVoice,
     category |-> ChannelType.GuildCategory, news |-> ChannelType.GuildAnnouncement,
     stage |-> ChannelType.GuildStageVoice, forum |-> ChannelType.GuildForum,
     media |-> ChannelType.GuildMedia, thread |-> ChannelType.PublicThread]

\* channelTypes.map(t => typeMapping[t]).filter(Boolean): 0 is falsy
AllowedTypes(channelTypes) ==
    { typeMapping[channelTypes[i]] : i \in 1..Len(channelTypes) } \ {0}

\* channel.isThread()
IsThread(channel) ==
    channel.type \in {ChannelType.PublicThread, ChannelType.PrivateThread,
                      ChannelType.AnnouncementThread}

Contains(q, x) == \E i \in 1..Len(q) : q[i] = x

\* the first test of the filter: FALSE when the type filter drops the channel
PassesType(channel, channelTypes) ==
    IF channelTypes # None /\ Len(channelTypes[1]) > 0
    THEN \/ channel.type \in AllowedTypes(channelTypes[1])
         \/ (Contains(channelTypes[1], "thread") /\ IsThread(channel))
    ELSE TRUE

\* categoryId && 'parentId' in channel && channel.parentId !== categoryId
DroppedByCategory(channel, categoryId) ==
    /\ TruthyStr(categoryId)
    /\ "parentId" \in channel.props
    /\ channel.parentId # categoryId

\* !includeArchived && channel.isThread() && channel.archived
DroppedAsArchived(channel, includeArchived) ==
    ~includeArchived /\ IsThread(channel) /\ channel.archived

\* !includePrivate && channel.type === ChannelType.PrivateThread
DroppedAsPrivate(channel, includePrivate) ==
    ~includePrivate /\ channel.type = ChannelType.PrivateThread

\* the predicate of guild.channels.cache.values().filter
KeepChannel(channel, args) ==
    /\ PassesType(channel, args.channelTypes)
    /\ ~DroppedByCategory(channel, args.categoryId)
    /\ ~DroppedAsArchived(channel, Default(args.includeArchived, FALSE))
    /\ ~DroppedAsPrivate(channel, Default(args.includePrivate, FALSE))

\* 'position' in a ? a.position : 999
NoPosition == 999

PositionKey(channel) ==
    IF "position" \in channel.props THEN channel.position ELSE NoPosition

\* a.name.localeCompare(b.name) orders by the letters first and puts the
\* lower case first among equal letters
LocaleRank(name) ==
    CASE name = "cat" -> 1 [] name = "general" -> 2 [] name = "late" -> 3
      [] name = "secret" -> 4 [] name = "thread" -> 5 [] name = "voice" -> 6
      [] name = "Voice" -> 7 [] OTHER -> 8

SortKey(channel, sortBy) ==
    CASE sortBy = "name" -> LocaleRank(channel.name)
      [] sortBy = "created" -> channel.createdTimestamp
      [] OTHER -> PositionKey(channel)

\* Array.prototype.sort with a comparator of keys: stable, ascending
RECURSIVE InsertByKey(_, _, _)
InsertByKey(q, x, sortBy) ==
    IF q = <<>> THEN <<x>>
    ELSE IF SortKey(q[Len(q)], sortBy) <= SortKey(x, sortBy) THEN Append(q, x)
    ELSE Append(InsertByKey(SubSeq(q, 1, Len(q) - 1), x, sortBy), q[Len(q)])

RECURSIVE SortChannels(_, _)
SortChannels(q, sortBy) ==
    IF q = <<>> THEN <<>>
    ELSE InsertByKey(SortChannels(SubSeq(q, 1, Len(q) - 1), sortBy), q[Len(q)], sortBy)

\* Object.entries(typeMapping).find(([_, v]) => v === channel.type)?.[0]
\*   || (channel.isThread() ? "thread" : "unknown")
TypeTag(channel) ==
    IF \E i \in 1..Len(TypeNames) : typeMapping[TypeNames[i]] = channel.type
    THEN TypeNames[CHOOSE i \in 1..Len(TypeNames) :
                      /\ typeMapping[TypeNames[i]] = channel.type
                      /\ \A j \in 1..(i - 1) : typeMapping[TypeNames[j]] # channel.type]
    ELSE IF IsThread(channel) THEN "thread" ELSE "unknown"

IsVoice(channel) ==
    channel.type \in {ChannelType.GuildVoice, ChannelType.GuildStageVoice}

IsForum(channel) ==
    channel.type \in {ChannelType.GuildForum, ChannelType.GuildMedia}

\* guild.channels.cache.get(id)?.name
ParentName(cache, parentId) ==
    IF \E i \in 1..Len(cache) : cache[i].id = parentId
    THEN Some((CHOOSE c \in {cache[i] : i \in 1..Len(cache)} : c.id = parentId).name)
    ELSE None

\* the projection of one channel
ProjectChannel(channel, args, cache, members, me) ==
    [id |-> channel.id,
     name |-> channel.name,
     type |-> TypeTag(channel),
     createdAt |-> [iso |-> channel.createdTimestamp],
     position |-> IF "position" \in channel.props THEN Some(channel.position) ELSE None,
     parentId |-> IF "parentId" \in channel.props /\ TruthyStr(channel.parentId)
                  THEN channel.parentId ELSE None,
     parentName |-> IF "parentId" \in channel.props /\ TruthyStr(channel.parentId)
                    THEN ParentName(cache, channel.parentId[1]) ELSE None,
     topic |-> IF Default(args.includeTopic, TRUE) /\ "topic" \in channel.props
                  /\ TruthyStr(channel.topic)
               THEN channel.topic ELSE None,
     permissions |-> IF Default(args.includePermissions, FALSE) /\ me
                        /\ channel.permissions # None
                     THEN Some([viewChannel |-> "ViewChannel" \in channel.permissions[1],
                                sendMessages |-> "SendMessages" \in channel.permissions[1],
                                readMessageHistory |->
                                    "ReadMessageHistory" \in channel.permissions[1],
                                manageChannel |->
                                    "ManageChannels" \in channel.permissions[1]])
                     ELSE None,
     memberCount |-> IF Default(args.includeStats, FALSE) /\ IsVoice(channel)
                     THEN Some(Cardinality({ i \in 1..Len(members) :
                                               members[i].voice = Some(channel.id) }))
                     ELSE None,
     threadStats |-> IF Default(args.includeStats, FALSE) /\ IsThread(channel)
                     THEN Some([archived |-> channel.archived,
                                autoArchiveDuration |-> channel.autoArchiveDuration,
                                memberCount |-> channel.memberCount])
                     ELSE None,
     bitrate |-> IF IsVoice(channel) THEN Some(channel.bitrate) ELSE None,
     userLimit |-> IF IsVoice(channel) THEN Some(channel.userLimit) ELSE None,
     defaultAutoArchiveDuration |->
         IF IsForum(channel) THEN Some(channel.defaultAutoArchiveDuration) ELSE None,
     availableTags |-> IF IsForum(channel) /\ channel.availableTags # None
                       THEN Some([i \in 1..Len(channel.availableTags[1]) |->
                                     [id |-> channel.availableTags[1][i].id,
                                      name |-> channel.availableTags[1][i].name,
                                      emoji |-> channel.availableTags[1][i].emoji]])
                       ELSE None]

ListArgs ==
    [guildId : {"g1", "g-none"},
     channelTypes : Opt({<<>>, <<"text">>, <<"voice">>, <<"thread", "forum">>}),
     includeArchived : Opt({TRUE}),
     includePrivate : Opt({TRUE}),
     categoryId : Opt({"k2"}),
     sortBy : Opt({"name", "created"}),
     includePermissions : Opt({TRUE}),
     includeTopic : Opt({FALSE}),
     includeStats : Opt({TRUE})]

\* catch (error) { throw new McpError(ErrorCode.InternalError, `Failed to list channels: ${error}`) }
ListCatch(error) ==
    McpError("InternalError", <<"Failed to list channels: ">> \o ErrorToString(error))

\* case "list_channels": env.guild is what guilds.fetch answers; env.me is
\* whether guild.members.me is set
ListChannels(args, env) ==
    LET kept == SelectSeq(ChannelCache, LAMBDA c : KeepChannel(c, args))
        sorted == SortChannels(kept, Default(args.sortBy, "position"))
    IN  IF env.guild # "ok"
        THEN Outcome(<<Rejected("guilds.fetch", env.guild)>>,
                     ListCatch(PlatformError(env.guild)), None)
        ELSE IF args.guildId \notin GuildIds
        THEN Outcome(<<Rejected("guilds.fetch", "Unknown Guild")>>,
                     ListCatch(PlatformError("Unknown Guild")), None)
        ELSE Outcome(<<Step("guilds.fetch", "guild")>>,
                     [type |-> "ok",
                      content |-> << [type |-> "text",
                                      text |-> JsonStringify(
                                          [i \in 1..Len(sorted) |->
                                              ProjectChannel(sorted[i], args, ChannelCache,
                                                             GuildMembers, env.me)])] >>],
                     None)

ListEnv == [guild : Answers, me : BOOLEAN]

(***************************************************************************)
(* The call-tool handler and the requests.                                 *)
(***************************************************************************)
\* a default case that reports the unknown name as a bad request
UnknownToolErrorAsInvalid(name) == McpError("InvalidRequest", <<"Unknown tool: ", name>>)

UnknownToolError(name) == McpError("MethodNotFound", <<"Unknown tool: ", name>>)

\* a handler that looks at the tool name before it checks readiness
CallToolHandlerNameFirst(ready, name, args, env) ==
    IF name \notin {"send_message", "read_messages", "list_channels"}
    THEN Outcome(<<>>, UnknownToolError(name), None)
    ELSE IF NotReady(ready)
    THEN Outcome(<<>>, NotReadyError, None)
    ELSE CASE name = "send_message" -> SendMessage(args, env)
           [] name = "read_messages" -> ReadMessages(args, env)
           [] OTHER -> ListChannels(args, env)

\* the handler of CallToolRequestSchema
CallToolHandler(ready, name, args, env) ==
    IF NotReady(ready)
    THEN Outcome(<<>>, NotReadyError, None)
    ELSE CASE name = "send_message" -> SendMessage(args, env)
           [] name = "read_messages" -> ReadMessages(args, env)
           [] name = "list_channels" -> ListChannels(args, env)
           [] OTHER -> Outcome(<<>>, UnknownToolError(name), None)

\* a platform call of the request was rejected
PlatformFailed(st) == \E i \in 1..Len(st) : st[i].out = "rejected"

\* a handler that marks the client not ready when a platform call failed
HandledResetsReady(req, out) ==
    /\ request' = req
    /\ steps' = out.steps
    /\ result' = out.result
    /\ payload' = out.payload
    /\ prevFailed' = (prevFailed \/ PlatformFailed(out.steps))
    /\ isReady' = (isReady /\ ~PlatformFailed(out.steps))
    /\ UNCHANGED <<token, process, exitCode, loginCalls, loginState, connectPc,
                   listener, readyEmitted, readyPromise, runPc, transport, guildCache>>

\* the handler ran to its end: its request, steps and result are recorded;
\* no handler assigns any other state
Handled(req, out) ==
    /\ request' = req
    /\ steps' = out.steps
    /\ result' = out.result
    /\ payload' = out.payload
    /\ prevFailed' = (prevFailed \/ PlatformFailed(out.steps))
    /\ UNCHANGED <<lifecycle, guildCache>>

\* A request reaches a handler through the transport, which run() attaches.
\* `direct` is a call of the handler registered by setupHandlers that does
\* not come through the transport.
Arrives(direct) ==
    /\ process = "running"
    /\ request = NoRequest
    /\ direct \/ transport = "attached"

\* the result or the error of the handler goes back to the caller, and the
\* request is over
Reply ==
    /\ process = "running"
    /\ request # NoRequest
    /\ request' = NoRequest
    /\ steps' = <<>>
    /\ result' = NoResult
    /\ payload' = None
    /\ UNCHANGED <<lifecycle, guildCache, prevFailed>>

Uris == {GuildsUri, "discord://unknown", "discord://guilds/", ""}

ListResources(direct) ==
    /\ Arrives(direct)
    /\ Handled([method |-> "resources/list"], ListResourcesHandler)

ReadResource(direct) ==
    /\ Arrives(direct)
    /\ \E uri \in Uris :
          Handled([method |-> "resources/read", uri |-> uri],
                  ReadResourceHandler(isReady, uri, guildCache))

ListTools(direct) ==
    /\ Arrives(direct)
    /\ Handled([method |-> "tools/list"], ListToolsHandler)

CallRequest(name, args) == [method |-> "tools/call", name |-> name, arguments |-> args]

CallSendMessage(direct) ==
    /\ Arrives(direct)
    /\ \E args \in SendArgs, env \in SendEnv :
          Handled(CallRequest("send_message", args),
                  CallToolHandler(isReady, "send_message", args, env))

CallReadMessages(direct) ==
    /\ Arrives(direct)
    /\ \E args \in ReadArgs :
          \E env \in ReadEnvs(args) :
             Handled(CallRequest("read_messages", args),
                     CallToolHandler(isReady, "read_messages", args, env))

CallListChannels(direct) ==
    /\ Arrives(direct)
    /\ \E args \in ListArgs, env \in ListEnv :
          Handled(CallRequest("list_channels", args),
                  CallToolHandler(isReady, "list_channels", args, env))

OtherTools == {"delete_message", "", "Send_Message"}

CallOtherTool(direct) ==
    /\ Arrives(direct)
    /\ \E name \in OtherTools :
          Handled(CallRequest(name, [channelId |-> "c-text"]),
                  CallToolHandler(isReady, name, [channelId |-> "c-text"], [none |-> TRUE]))

(***************************************************************************)
(* Specifications.                                                         *)
(***************************************************************************)
Next ==
    \/ TokenMissing
    \/ Start
    \/ LoginResolves
    \/ LoginRejects
    \/ GuildCreate
    \/ ConnectDiscordResumes
    \/ ConnectDiscordFails
    \/ EmitReady
    \/ RunResumes
    \/ ListResources(FALSE)
    \/ ReadResource(FALSE)
    \/ ListTools(FALSE)
    \/ CallSendMessage(FALSE)
    \/ CallReadMessages(FALSE)
    \/ CallListChannels(FALSE)
    \/ CallOtherTool(FALSE)
    \/ Reply

\* the program
Spec == Init /\ [][Next]_vars

NextDirect ==
    \/ TokenMissing
    \/ Start
    \/ LoginResolves
    \/ LoginRejects
    \/ GuildCreate
    \/ ConnectDiscordResumes
    \/ ConnectDiscordFails
    \/ EmitReady
    \/ RunResumes
    \/ ListResources(TRUE)
    \/ ReadResource(TRUE)
    \/ ListTools(TRUE)
    \/ CallSendMessage(TRUE)
    \/ CallReadMessages(TRUE)
    \/ CallListChannels(TRUE)
    \/ CallOtherTool(TRUE)
    \/ Reply

\* the program with its handlers also called directly, at any time after
\* the constructor registered them
HandlerSpec == Init /\ [][NextDirect]_vars

(***************************************************************************)
(* Properties.                                                             *)
(***************************************************************************)
IsCall(name) == request.method = "tools/call" /\ request.name = name

IsError(code) == result.type = "error" /\ result.code = code

Last(q) == q[Len(q)]

\* C1: a read-resource or call-tool request handled while the readiness
\* flag is false gets the 'Discord client not ready' internal error, and its
\* handler made no platform call.
C1_NotReadyFailsFast ==
    (request.method \in {"resources/read", "tools/call"} /\ ~isReady)
        => /\ IsError("InternalError")
           /\ result.message = <<"Discord client not ready">>
           /\ PlatformCalls(steps) = {}

C1_Witness ==
    /\ ~isReady
    /\ IsCall("send_message")
    /\ request.arguments.channelId = "c-text"
    /\ request.arguments.content = Some("hi")
    /\ IsError("InternalError")

\* C2: once login has succeeded, the platform has reported "ready" and
\* connectDiscord has run past its await, the readiness flag is set and the
\* promise run() awaits is resolved, whichever of the two came first.
C2_ReadyReleasesRun ==
    (loginState = "resolved" /\ readyEmitted /\ connectPc = "done")
        => (isReady /\ readyPromise = "resolved")

\* C3: the transport is attached, and a request is dispatched, only in
\* states where the readiness flag is true.
C3_AttachOnlyWhenReady ==
    (transport = "attached" \/ request # NoRequest) => isReady

C3_Witness ==
    /\ transport = "attached"
    /\ isReady
    /\ IsCall("read_messages")

\* C4: the readiness flag starts false; it never goes from true to false,
\* whatever handler runs and however it ends; and it only changes in the
\* step in which the platform emits "ready".
C4_ReadySetOnceNeverReset ==
    /\ ~isReady
    /\ [][/\ isReady => isReady'
          /\ (isReady' # isReady) => (~readyEmitted /\ readyEmitted')]_vars

C4_Witness ==
    /\ isReady
    /\ request.method = "tools/call"
    /\ PlatformFailed(steps)
    /\ IsError("InternalError")
    /\ prevFailed

\* C5: after a fatal startup error (no credential at the token check, or a
\* login that threw or whose rejection reached connectDiscord) the process
\* has exited with code 1, login was called at most once, the readiness flag
\* is false and the transport is detached; and an exited process takes no
\* further step.
FatalStartup ==
    \/ process # "loading" /\ ~TruthyStr(token)
    \/ loginState = "rejected" /\ connectPc = "done"

C5_FatalStartupExits ==
    /\ [](FatalStartup => /\ process = "exited"
                          /\ exitCode = 1
                          /\ loginCalls <= 1
                          /\ ~isReady
                          /\ transport = "detached")
    /\ [][process = "exited" => UNCHANGED vars]_vars

C5_Witness ==
    /\ loginState = "rejected"
    /\ connectPc = "done"
    /\ loginCalls = 1
    /\ process = "exited"
    /\ guildCache # <<>>

\* C6: a send_message whose content is undefined or empty and whose embeds
\* are absent or an empty sequence never calls the platform's send, whatever
\* its other arguments and its channel.
C6_EmptyMessageNeverSent ==
    (/\ IsCall("send_message")
     /\ request.arguments.content \in {None, Some("")}
     /\ request.arguments.embeds \in {None, Some(<<>>)})
        => Calls(steps, "send") = 0

C6_Witness ==
    /\ IsCall("send_message")
    /\ request.arguments.content = Some("")
    /\ request.arguments.embeds = Some(<<>>)
    /\ request.arguments.replyTo # None
    /\ request.arguments.suppressEmbeds = Some(TRUE)
    /\ steps[1] = Step("channels.fetch", "channel")
    /\ Last(steps).op = "validate"
    /\ result.type = "error"

\* C7: a send_message after readiness, on a channel that resolves and is
\* text-capable, with neither content nor a non-empty embeds sequence, ends
\* with an error classified 'invalid request'.
C7_EmptyMessageIsInvalidRequest ==
    (/\ IsCall("send_message")
     /\ isReady
     /\ steps # <<>>
     /\ steps[1] = Step("channels.fetch", "channel")
     /\ IsTextBased(ChannelOf(request.arguments.channelId)[1])
     /\ request.arguments.content \in {None, Some("")}
     /\ request.arguments.embeds \in {None, Some(<<>>)})
        => IsError("InvalidRequest")

\* C8: for send_message and read_messages, when the channel resolves to
\* nothing or to a channel that is not text-capable, the error returned is
\* classified 'invalid request', and neither send nor message fetch is called.
C8_BadChannelIsInvalidRequest ==
    (/\ IsCall("send_message") \/ IsCall("read_messages")
     /\ isReady
     /\ steps # <<>>
     /\ steps[1].out # "rejected"
     /\ \/ ChannelOf(request.arguments.channelId) = None
        \/ ~IsTextBased(ChannelOf(request.arguments.channelId)[1]))
        => /\ IsError("InvalidRequest")
           /\ Calls(steps, "send") = 0
           /\ Calls(steps, "messages.fetch") = 0

\* C9: when a platform call of a tool invocation fails, the request ends
\* with an 'internal error' whose message ends with the description of the
\* failure; the failed call is the last step and each platform operation was
\* called at most once (no retry); and the process still runs with the
\* readiness flag true, also for the requests after it.
C9_PlatformFailureIsInternalError ==
    /\ (request.method = "tools/call" /\ PlatformFailed(steps))
          => /\ IsError("InternalError")
             /\ Last(steps).out = "rejected"
             /\ Last(result.message) = Last(steps).error
             /\ \A op \in PlatformOps : Calls(steps, op) <= 1
             /\ Cardinality({ i \in 1..Len(steps) : steps[i].out = "rejected" }) = 1
    /\ prevFailed => (process = "running" /\ isReady /\ transport = "attached")

C9_Witness ==
    /\ prevFailed
    /\ IsCall("send_message")
    /\ Last(steps) = Step("send", "sent")
    /\ result.type = "ok"

\* C10: after readiness, a read-resource request for any uri other than
\* 'discord://guilds' fails as an 'invalid request' whose message names that
\* uri, and the guild cache is not read; a request for 'discord://guilds'
\* returns one content entry with that uri and, in it, one summary (id, name,
\* memberCount) per cached guild.
C10_ReadResource ==
    (request.method = "resources/read" /\ isReady)
        => IF request.uri = "discord://guilds"
           THEN /\ result.type = "ok"
                /\ Len(result.contents) = 1
                /\ result.contents[1].uri = "discord://guilds"
                /\ Len(result.contents[1].text.json) = Len(guildCache)
                /\ \A i \in 1..Len(guildCache) :
                      result.contents[1].text.json[i]
                          = [id |-> guildCache[i].id, name |-> guildCache[i].name,
                             memberCount |-> guildCache[i].memberCount]
           ELSE /\ IsError("InvalidRequest")
                /\ result.message = <<"Unknown resource: ", request.uri>>
                /\ Calls(steps, "guilds.cache") = 0

C10_Witness ==
    /\ request.method = "resources/read"
    /\ request.uri = "discord://guilds"
    /\ isReady
    /\ Len(guildCache) = 2
    /\ result.type = "ok"

\* C11: a call-tool request whose name is none of send_message,
\* read_messages, list_channels is answered with the 'method not found'
\* error, and its handler made no platform call.
C11_UnknownToolIsMethodNotFound ==
    (/\ request.method = "tools/call"
     /\ request.name \notin {"send_message", "read_messages", "list_channels"})
        => /\ IsError("MethodNotFound")
           /\ PlatformCalls(steps) = {}

C11_Witness ==
    /\ request.method = "tools/call"
    /\ request.name = "Send_Message"
    /\ IsError("MethodNotFound")
    /\ result.message = <<"Unknown tool: ", "Send_Message">>

IsReadOk == IsCall("read_messages") /\ result.type = "ok"

\* the messages.fetch step of a read_messages that reached it
FetchedStep == steps[2]

\* the output of read_messages: the parsed text of its one content entry
Output == result.content[1].text.json

\* an anchor reaches the platform as given; an absent one, and the empty
\* string (which names no message), put nothing in the fetch options
AnchorPassed(given, passed) ==
    IF given = None \/ given = Some("") THEN passed = None ELSE passed = given

\* C12: a read_messages that returns a result made exactly one platform
\* message fetch, with the requested limit (10 when omitted) and the given
\* anchors; its output has at most `limit` entries; with authorId given the
\* output is, message for message, the fetched messages whose author id
\* equals authorId, and without it all the fetched messages.
C12_OneFetchThenFilter ==
    IsReadOk =>
        LET a == request.arguments
            limit == IF a.limit = None THEN 10 ELSE a.limit[1]
            fetched == FetchedStep.messages
            wanted == { i \in 1..Len(fetched) :
                          a.authorId \in {None, Some("")}
                          \/ fetched[i].author.id = a.authorId[1] }
        IN  /\ Calls(steps, "messages.fetch") = 1
            /\ Calls(steps, "channels.fetch") = 1
            /\ FetchedStep.options.limit = limit
            /\ AnchorPassed(a.before, FetchedStep.options.before)
            /\ AnchorPassed(a.after, FetchedStep.options.after)
            /\ AnchorPassed(a.around, FetchedStep.options.around)
            /\ Len(Output) <= limit
            /\ Len(Output) = Cardinality(wanted)
            /\ { Output[i].id : i \in 1..Len(Output) }
                  = { fetched[i].id : i \in wanted }
            /\ \A i \in 1..Len(Output) :
                  a.authorId # None => Output[i].author.id = a.authorId[1]

C12_Witness ==
    /\ IsReadOk
    /\ request.arguments.authorId = Some("u1")
    /\ request.arguments.limit = Some(2)
    /\ request.arguments.before = Some("2")
    /\ Len(FetchedStep.messages) = 2
    /\ Len(Output) = 1

\* what the same read_messages returns for the same fetched messages when
\* asked for sortOrder 'desc'
DescOutput ==
    ReadMessages([request.arguments EXCEPT !.sortOrder = Some("desc")],
                 [fetch |-> "ok", messages |-> "ok", fetched |-> FetchedStep.messages])
        .result.content[1].text.json

\* C13: the output of read_messages is in descending order of timestamp
\* when sortOrder is omitted or 'desc' and in ascending order when it is
\* 'asc'; the 'asc' output is the reverse of the 'desc' output for the same
\* fetched messages.
C13_SortOrder ==
    IsReadOk =>
        /\ request.arguments.sortOrder \in {None, Some("desc")}
              => /\ \A i \in 1..(Len(Output) - 1) :
                       Output[i].timestamp > Output[i + 1].timestamp
                 /\ Output = DescOutput
        /\ request.arguments.sortOrder = Some("asc")
              => /\ \A i \in 1..(Len(Output) - 1) :
                       Output[i].timestamp < Output[i + 1].timestamp
                 /\ Len(Output) = Len(DescOutput)
                 /\ \A i \in 1..Len(Output) :
                       Output[i] = DescOutput[Len(Output) + 1 - i]

C13_Witness ==
    /\ IsReadOk
    /\ request.arguments.sortOrder = Some("asc")
    /\ Len(Output) = 2
    /\ Output[1].timestamp < Output[2].timestamp

\* the fetched message an entry of the output was made from
SourceOf(entry) ==
    CHOOSE m \in { FetchedStep.messages[i] : i \in 1..Len(FetchedStep.messages) } :
        m.id = entry.id

\* C14: in every message of a read_messages result, content is present iff
\* includeContent is true (the default), embeds is present iff includeEmbeds
\* is true (default false) and the message has an embed, and reactions is
\* present iff includeReactions is true (default false) and the message has
\* a reaction.
C14_ConditionalFields ==
    IsReadOk =>
        \A i \in 1..Len(Output) :
            LET a == request.arguments
                src == SourceOf(Output[i])
            IN  /\ (Output[i].content # None) <=> (a.includeContent \in {None, Some(TRUE)})
                /\ (Output[i].content # None) => Output[i].content = Some(src.content)
                /\ (Output[i].embeds # None)
                      <=> (a.includeEmbeds = Some(TRUE) /\ Len(src.embeds) > 0)
                /\ (Output[i].reactions # None)
                      <=> (a.includeReactions = Some(TRUE) /\ Len(src.reactions) > 0)

C14_Witness ==
    /\ IsReadOk
    /\ request.arguments.includeContent = None
    /\ request.arguments.includeEmbeds = Some(TRUE)
    /\ request.arguments.includeReactions = Some(TRUE)
    /\ Len(Output) = 2
    /\ \E i, j \in 1..2 :
          /\ Output[i].embeds # None /\ Output[i].reactions = None
          /\ Output[j].embeds = None /\ Output[j].reactions # None
          /\ Output[i].content # None

IsListOk == IsCall("list_channels") /\ result.type = "ok"

\* the output of list_channels: the parsed text of its one content entry
Listed == result.content[1].text.json

ListedIds == { Listed[i].id : i \in 1..Len(Listed) }

CachedChannels == { ChannelCache[i] : i \in 1..Len(ChannelCache) }

\* the request type a channel's type answers to; the three thread types
\* answer to 'thread'
RequestTypeOf(channel) ==
    CASE channel.type = ChannelType.GuildText -> "text"
      [] channel.type = ChannelType.GuildVoice -> "voice"
      [] channel.type = ChannelType.GuildCategory -> "category"
      [] channel.type = ChannelType.GuildAnnouncement -> "news"
      [] channel.type = ChannelType.GuildStageVoice -> "stage"
      [] channel.type = ChannelType.GuildForum -> "forum"
      [] channel.type = ChannelType.GuildMedia -> "media"
      [] channel.type \in {ChannelType.PublicThread, ChannelType.PrivateThread,
                           ChannelType.AnnouncementThread} -> "thread"
      [] OTHER -> "unknown"

\* the type filter as stated: inactive, or the channel's type is requested
TypeRequested(channel, a) ==
    \/ a.channelTypes = None
    \/ a.channelTypes = Some(<<>>)
    \/ Contains(a.channelTypes[1], RequestTypeOf(channel))

\* the category filter as stated: inactive, or the channel declares no
\* parent, or its parent is categoryId
InCategory(channel, a) ==
    \/ a.categoryId \in {None, Some("")}
    \/ "parentId" \notin channel.props
    \/ channel.parentId = a.categoryId

\* the archived filter as stated
ArchivedAllowed(channel, a) ==
    \/ a.includeArchived = Some(TRUE)
    \/ ~(RequestTypeOf(channel) = "thread" /\ channel.archived)

\* the private filter as stated
PrivateAllowed(channel, a) ==
    \/ a.includePrivate = Some(TRUE)
    \/ channel.type # ChannelType.PrivateThread

\* C15: with a non-empty channelTypes, a channel that passes the other
\* filters is listed iff its type is one of the requested types, 'thread'
\* standing for the three thread types; so ['text'] keeps every text channel.
C15_TypeFilter ==
    (/\ IsListOk
     /\ request.arguments.channelTypes # None
     /\ request.arguments.channelTypes # Some(<<>>))
        => \A c \in CachedChannels :
              (/\ InCategory(c, request.arguments)
               /\ ArchivedAllowed(c, request.arguments)
               /\ PrivateAllowed(c, request.arguments))
                  => (c.id \in ListedIds <=> TypeRequested(c, request.arguments))

\* the same, for requests that do not ask for 'text'
C15_TypeFilterButText ==
    (IsListOk /\ request.arguments.channelTypes # Some(<<"text">>)) => C15_TypeFilter

\* the channels that pass, each on its own, every one of the four filters
PassingAll(a) ==
    { c \in CachedChannels : /\ TypeRequested(c, a)
                             /\ InCategory(c, a)
                             /\ ArchivedAllowed(c, a)
                             /\ PrivateAllowed(c, a) }

\* C16: list_channels lists a cached channel iff it passes every active
\* filter on its own (type, category, archived, private); the set does not
\* depend on the order of the filters.
C16_IndependentFilters ==
    IsListOk => ListedIds = { c.id : c \in PassingAll(request.arguments) }

\* the same, for requests that do not ask for 'text'
C16_IndependentFiltersButText ==
    (IsListOk /\ request.arguments.channelTypes # Some(<<"text">>))
        => C16_IndependentFilters

\* the cached channel a listed entry was made from
CachedOf(entry) == CHOOSE c \in CachedChannels : c.id = entry.id

HasPosition(channel) == "position" \in channel.props

\* C17: sorted by position (the default), the channels that have a position
\* are listed in ascending position order and every channel without one
\* comes after all of them, whatever the position values are.
C17_PositionSort ==
    (IsListOk /\ request.arguments.sortBy = None)
        => \A i, j \in 1..Len(Listed) :
              i < j =>
                 LET a == CachedOf(Listed[i])
                     b == CachedOf(Listed[j])
                 IN  /\ (HasPosition(a) /\ HasPosition(b)) => a.position <= b.position
                     /\ ~(~HasPosition(a) /\ HasPosition(b))

\* the same, for the channels whose position is below 999
C17_PositionSortBelowSentinel ==
    (IsListOk /\ request.arguments.sortBy = None)
        => \A i, j \in 1..Len(Listed) :
              i < j =>
                 LET a == CachedOf(Listed[i])
                     b == CachedOf(Listed[j])
                 IN  (HasPosition(b) /\ b.position < NoPosition) =>
                        /\ HasPosition(a)
                        /\ a.position <= b.position

\* a supplied string with at least one character
NonEmpty(o) == o # None /\ o[1] # ""

\* every supplied, non-empty field of the input embed is in the built embed
\* with the same value (a colour of 0 counts as empty here, as in the code)
Carried(in, out) ==
    /\ \A f \in {"title", "description", "url"} : NonEmpty(in[f]) => out[f] = in[f]
    /\ (in.color # None /\ in.color # Some(0)) => out.color = in.color
    /\ NonEmpty(in.timestamp) => out.timestamp = Some([date |-> in.timestamp[1]])
    /\ in.fields # None => out.fields = in.fields
    /\ \A f \in {"thumbnail", "image"} :
          in[f] # None => out[f] = Some([url |-> in[f][1].url])
    /\ in.author # None =>
          /\ out.author # None
          /\ out.author[1].url = in.author[1].url
          /\ out.author[1].iconURL = in.author[1].iconURL
          /\ NonEmpty(in.author[1].name) => out.author[1].name = in.author[1].name[1]
    /\ in.footer # None =>
          /\ out.footer # None
          /\ out.footer[1].iconURL = in.footer[1].iconURL
          /\ NonEmpty(in.footer[1].text) => out.footer[1].text = in.footer[1].text[1]

\* a field the caller did not supply is absent from the built embed
AbsentStaysAbsent(in, out) ==
    \A f \in DOMAIN in : in[f] = None => out[f] = None

\* an author without a name or a footer without text gets no empty one
NoPlaceholders(in, out) ==
    /\ (in.author # None /\ in.author[1].name = None) => out.author[1].name # ""
    /\ (in.footer # None /\ in.footer[1].text = None) => out.footer[1].text # ""

BuiltEmbeds ==
    /\ IsCall("send_message")
    /\ payload # None
    /\ HasEmbeds(request.arguments.embeds)

\* C18: every supplied, non-empty field of an embed given to send_message is
\* in the outgoing embed with the same value, and nothing the caller left
\* out appears there, not even as an empty name or text.
C18_EmbedRoundTrip ==
    BuiltEmbeds =>
        \A i \in 1..Len(request.arguments.embeds[1]) :
            LET in == request.arguments.embeds[1][i]
                out == payload[1].embeds[1][i]
            IN  /\ Carried(in, out)
                /\ AbsentStaysAbsent(in, out)
                /\ NoPlaceholders(in, out)

\* the same without the sub-fields of author and footer
C18_EmbedRoundTripOfFields ==
    BuiltEmbeds =>
        \A i \in 1..Len(request.arguments.embeds[1]) :
            LET in == request.arguments.embeds[1][i]
                out == payload[1].embeds[1][i]
            IN  Carried(in, out) /\ AbsentStaysAbsent(in, out)

HasStep(op) == \E i \in 1..Len(steps) : steps[i].op = op

StepIndex(op) == CHOOSE i \in 1..Len(steps) : steps[i].op = op

\* the steps that build the send payload
BuildOps == {"messageOptions", "reply", "embeds", "flags"}

\* the content-or-embeds check rejected the request
RejectedByCheck ==
    /\ IsCall("send_message")
    /\ result.type = "error"
    /\ Len(steps) > 0
    /\ Last(steps).op = "validate"

\* C19 as stated: channel resolution, then the content-or-embeds check, then
\* the construction of the payload, then the send; a request the check
\* rejects has built no payload.
C19_CheckBeforePayload ==
    IsCall("send_message") =>
        /\ HasStep("validate") =>
              \A i \in 1..Len(steps) :
                  steps[i].op \in BuildOps => StepIndex("validate") < i
        /\ RejectedByCheck =>
              /\ payload = None
              /\ \A i \in 1..Len(steps) : steps[i].op \notin BuildOps

\* C19 amended: channel resolution, then the construction of the payload,
\* then the content-or-embeds check, then the send; a request the check
\* rejects has built its message options (with the reply reference and the
\* flags it asked for, and neither content nor embeds) and sent nothing.
C19_PayloadBeforeCheck ==
    (IsCall("send_message") /\ isReady) =>
        /\ steps[1].op = "channels.fetch"
        /\ HasStep("validate") =>
              /\ HasStep("messageOptions")
              /\ \A i \in 1..Len(steps) :
                    steps[i].op \in BuildOps => (1 < i /\ i < StepIndex("validate"))
        /\ HasStep("send") =>
              /\ HasStep("validate")
              /\ StepIndex("validate") < StepIndex("send")
              /\ Last(steps).op = "send"
        /\ RejectedByCheck =>
              /\ ~HasStep("send")
              /\ payload # None
              /\ payload[1].content = None
              /\ payload[1].embeds = None
              /\ (payload[1].reply # None) <=> TruthyStr(request.arguments.replyTo)
              /\ (payload[1].flags # None) <=> (MessageFlagsOf(request.arguments) > 0)

\* a rejected request that had built a reply reference and flags
C19_Witness ==
    /\ RejectedByCheck
    /\ request.arguments.content = Some("")
    /\ payload # None
    /\ payload[1].reply = Some([messageReference |-> "m1", failIfNotExists |-> FALSE])
    /\ payload[1].flags = Some(SuppressEmbedsFlag + SuppressNotificationsFlag)
    /\ StepIndex("reply") < StepIndex("validate")

\* C20: the call-tool handler checks readiness before the tool name: an
\* unknown tool called while the readiness flag is false gets the not-ready
\* internal error, and 'method not found' is answered only when the flag is
\* true.
C20_ReadinessBeforeToolName ==
    /\ (/\ request.method = "tools/call"
        /\ request.name \notin {"send_message", "read_messages", "list_channels"}
        /\ ~isReady)
           => /\ result = NotReadyError
              /\ IsError("InternalError")
    /\ IsError("MethodNotFound") => isReady

\* an unknown tool called before readiness
C20_Witness ==
    /\ request.method = "tools/call"
    /\ request.name = "delete_message"
    /\ ~isReady
    /\ result = NotReadyError
    /\ steps = <<>>

\* a list-resources or list-tools request is handled in this step
ListHandled ==
    /\ request = NoRequest
    /\ request'.method \in {"resources/list", "tools/list"}

\* C21: list-resources and list-tools answer the same in every state, ready
\* or not: the one descriptor of 'discord://guilds', the three tool
\* descriptors send_message, read_messages, list_channels; they make no
\* platform call and change no state of the program.
C21_ListHandlersAreConstant ==
    [][ListHandled =>
          /\ steps' = <<>>
          /\ payload' = None
          /\ result'.type = "ok"
          /\ request'.method = "resources/list" =>
                result'.resources = << [uri |-> "discord://guilds",
                                        name |-> "Discord Guilds",
                                        description |-> "List of Discord guilds the bot is in",
                                        mimeType |-> "application/json"] >>
          /\ request'.method = "tools/list" =>
                /\ Len(result'.tools) = Len(ToolNames)
                /\ \A i \in 1..Len(ToolNames) : result'.tools[i].name = ToolNames[i]
          /\ UNCHANGED <<lifecycle, guildCache, prevFailed>>]_vars

\* list-resources answered while the readiness flag is false
C21_Witness ==
    /\ request.method = "resources/list"
    /\ ~isReady
    /\ result.type = "ok"
    /\ Len(result.resources) = 1
    /\ result.resources[1].uri = GuildsUri
    /\ steps = <<>>

====
